---- MODULE Spec2Model ----
(***************************************************************************)
(* TechForge agent orchestration engine (orchestration/orchestrator.py).   *)
(*                                                                         *)
(* The module models OrchestrationEngine: the analysis pipeline            *)
(* (analyze_task and the helpers it calls) as operators computed the way   *)
(* the code computes them, and execute_task as a state machine whose       *)
(* steps are the resumptions of the asyncio coroutines it creates.         *)
(*                                                                         *)
(* Conventions                                                             *)
(*  - A task text is a sequence of one-character strings, so that          *)
(*    str.lower() and the substring test `keyword in task_lower` are       *)
(*    computed character by character.                                     *)
(*  - Durations are integers in milliseconds: len(task) * 0.01 * m, with   *)
(*    m given to one decimal, is len(task) * (10 m) ms exactly.            *)
(*  - uuid4() is a source of fresh identifiers: the n-th call returns n.   *)
(*  - Python leaves the iteration order of a set unspecified; for strings  *)
(*    it is fixed by the process's hash seed.  hash_seed is drawn at       *)
(*    start-up and HashOrder gives the order it lists role ids in.         *)
(*  - Payload fields that no decision reads (description, primary domain,  *)
(*    metadata, skills, wall-clock timestamps and durations) are left out. *)
(*                                                                         *)
(* Specifications                                                          *)
(*  - SpecAnalysis: analyze_task applied once to each text of Texts.       *)
(*  - SpecPlan: the same, followed by get_execution_plan.                  *)
(*  - Spec: one caller analysing and executing the texts of RunTexts.      *)
(*  - SpecFaults: Spec with execution calls that raise and with            *)
(*    cancellation of execute_task.                                        *)
(*  - SpecGiven: one caller executing a TaskAnalysis it built by hand.     *)
(*  - SpecConcurrent: two callers whose execute_task calls interleave.     *)
(*  - SpecMerge: _merge_results and _record_execution applied to given     *)
(*    result records, failed ones included.                                *)
(*  - SpecFair: Spec with the event loop resuming every ready coroutine.   *)
(***************************************************************************)
EXTENDS Integers, Sequences, FiniteSets, TLC

(* ------------------------------ bounds -------------------------------- *)

\* Number of vocabulary words a generated task text is made of, at most.
MaxWords == 2

\* Hash seeds 0..MaxSeed, each giving one iteration order of role-id sets.
MaxSeed == 1

\* uuid4() calls the model follows.
MaxUuid == 12

\* execute_task calls the model follows.
MaxRuns == 2

\* Result records in a results dict handed to _merge_results, at most.
MaxRecords == 3

(* ------------------------------- text --------------------------------- *)

UpperCase == <<"A","B","C","D","E","F","G","H","I","J","K","L","M",
               "N","O","P","Q","R","S","T","U","V","W","X","Y","Z">>

LowerCase == <<"a","b","c","d","e","f","g","h","i","j","k","l","m",
               "n","o","p","q","r","s","t","u","v","w","x","y","z">>

\* str.lower() of one character.
LowerChar(c) ==
  IF \E i \in 1..Len(UpperCase) : UpperCase[i] = c
    THEN LowerCase[CHOOSE i \in 1..Len(UpperCase) : UpperCase[i] = c]
    ELSE c

\* Mutant of Lower: the text is matched as written, without str.lower().
Lower_AsWritten(task) == task

\* task.lower()
Lower(task) == [i \in 1..Len(task) |-> LowerChar(task[i])]

\* keyword in text (Python substring test)
Contains(text, keyword) ==
  \E i \in 1..(Len(text) - Len(keyword) + 1) :
    \A j \in 1..Len(keyword) : text[i + j - 1] = keyword[j]

\* any(keyword in text for keyword in keywords)
AnyIn(text, keywords) == \E k \in keywords : Contains(text, k)

(* ------------------------ task texts (inputs) ------------------------- *)

\* Words the generated task texts are made of.
Vocabulary ==
  { <<"a","p","i">>,
    <<"b","u","i","l","d">>,
    <<"f","e","a","t","u","r","e">>,
    <<"d","a","t","a","b","a","s","e">>,
    <<"s","e","c","u","r","i","t","y">>,
    <<"t","e","s","t">>,
    <<"a","p","p">>,
    <<"d","e","p","l","o","y">>,
    <<"r","e","f","a","c","t","o","r">>,
    <<"e","n","t","e","r","p","r","i","s","e">>,
    <<"l","o","g","i","n">>,
    <<"z","z","z">> }

RECURSIVE JoinWords(_)
\* " ".join(words)
JoinWords(words) ==
  IF Len(words) = 0 THEN << >>
  ELSE IF Len(words) = 1 THEN words[1]
  ELSE words[1] \o <<" ">> \o JoinWords(Tail(words))

RECURSIVE WordLists(_)
\* Sequences of at most n vocabulary words.
WordLists(n) ==
  IF n = 0 THEN { << >> }
  ELSE WordLists(n - 1) \cup
       { <<w>> \o ws : w \in Vocabulary, ws \in { s \in WordLists(n - 1) : Len(s) = n - 1 } }

\* "Create a REST API for user management"
ScenarioA ==
  << "C","r","e","a","t","e"," ","a"," ","R","E","S","T"," ",
     "A","P","I"," ","f","o","r"," ","u","s","e","r"," ","m",
     "a","n","a","g","e","m","e","n","t" >>

\* "Build an enterprise-scale real-time distributed chat system with authentication"
ScenarioB ==
  << "B","u","i","l","d"," ","a","n"," ","e","n","t","e","r",
     "p","r","i","s","e","-","s","c","a","l","e"," ","r","e",
     "a","l","-","t","i","m","e"," ","d","i","s","t","r","i",
     "b","u","t","e","d"," ","c","h","a","t"," ","s","y","s",
     "t","e","m"," ","w","i","t","h"," ","a","u","t","h","e",
     "n","t","i","c","a","t","i","o","n" >>

\* "app"
TextApp == <<"a","p","p">>

\* "zzz"
TextZzz == <<"z","z","z">>

\* "feature"
TextFeature == <<"f","e","a","t","u","r","e">>

\* "api security test"
TextApiSecurityTest == <<"a","p","i"," ","s","e","c","u","r","i","t","y"," ","t","e","s","t">>

\* "api app test"
TextApiAppTest == <<"a","p","i"," ","a","p","p"," ","t","e","s","t">>

\* The task texts whose analyses are executed.
RunTexts == { TextApp, TextZzz, TextApiAppTest }

\* "model"
TextModel == <<"m","o","d","e","l">>

\* The task texts two concurrent callers analyse and execute.
ConcurrentTexts == { TextModel, TextZzz }

\* The task texts analyze_task is given: the empty text, texts matching no
\* keyword, every combination of at most MaxWords vocabulary words, the two
\* scenario texts, two further texts and the texts that are executed.
Texts ==
  { JoinWords(ws) : ws \in WordLists(MaxWords) }
    \cup { ScenarioA, ScenarioB, TextFeature, TextApiSecurityTest } \cup RunTexts

(* ----------------------- capability registry -------------------------- *)

\* AGENT_CAPABILITIES: role id -> domains, complexity_limit, parallel_capacity.
AGENT_CAPABILITIES ==
  ("backend-expert" :>
      [ domains |-> {"backend", "full_stack"},
        complexity_limit |-> "expert", parallel_capacity |-> 3 ]) @@
  ("frontend-expert" :>
      [ domains |-> {"frontend", "full_stack"},
        complexity_limit |-> "expert", parallel_capacity |-> 3 ]) @@
  ("database-expert" :>
      [ domains |-> {"database"},
        complexity_limit |-> "expert", parallel_capacity |-> 2 ]) @@
  ("devops-expert" :>
      [ domains |-> {"devops"},
        complexity_limit |-> "expert", parallel_capacity |-> 2 ]) @@
  ("security-expert" :>
      [ domains |-> {"security"},
        complexity_limit |-> "expert", parallel_capacity |-> 2 ]) @@
  ("qa-expert" :>
      [ domains |-> {"testing"},
        complexity_limit |-> "complex", parallel_capacity |-> 3 ]) @@
  ("ai-ml-expert" :>
      [ domains |-> {"ml_ai"},
        complexity_limit |-> "expert", parallel_capacity |-> 1 ]) @@
  ("mobile-expert" :>
      [ domains |-> {"mobile"},
        complexity_limit |-> "expert", parallel_capacity |-> 2 ]) @@
  ("game-expert" :>
      [ domains |-> {"game"},
        complexity_limit |-> "expert", parallel_capacity |-> 1 ]) @@
  ("hardware-iot-expert" :>
      [ domains |-> {"iot"},
        complexity_limit |-> "complex", parallel_capacity |-> 1 ]) @@
  ("uiux-principal" :>
      [ domains |-> {"design"},
        complexity_limit |-> "complex", parallel_capacity |-> 2 ]) @@
  ("web-design-agent" :>
      [ domains |-> {"design", "frontend"},
        complexity_limit |-> "complex", parallel_capacity |-> 2 ]) @@
  ("refactor-agent" :>
      [ domains |-> {"refactoring"},
        complexity_limit |-> "expert", parallel_capacity |-> 1 ])

\* The keys of AGENT_CAPABILITIES in the order the dict literal lists them.
AgentIds ==
  << "backend-expert", "frontend-expert", "database-expert",
     "devops-expert", "security-expert", "qa-expert",
     "ai-ml-expert", "mobile-expert", "game-expert",
     "hardware-iot-expert", "uiux-principal", "web-design-agent",
     "refactor-agent" >>

\* TASK_PATTERNS: keywords, implied roles and (unused) complexity per pattern.
TASK_PATTERNS ==
  {
    [ name |-> "api_creation",
      keywords |-> {
        <<"a","p","i">>,
        <<"r","e","s","t">>,
        <<"g","r","a","p","h","q","l">>,
        <<"e","n","d","p","o","i","n","t">>,
        <<"s","e","r","v","i","c","e">> },
      agents |-> <<"backend-expert">>,
      complexity |-> "moderate" ],
    [ name |-> "ui_component",
      keywords |-> {
        <<"c","o","m","p","o","n","e","n","t">>,
        <<"u","i">>,
        <<"i","n","t","e","r","f","a","c","e">>,
        <<"w","i","d","g","e","t">>,
        <<"f","r","o","n","t","e","n","d">> },
      agents |-> <<"frontend-expert">>,
      complexity |-> "simple" ],
    [ name |-> "full_stack_feature",
      keywords |-> {
        <<"f","e","a","t","u","r","e">>,
        <<"a","p","p","l","i","c","a","t","i","o","n">>,
        <<"f","u","l","l","-","s","t","a","c","k">>,
        <<"e","n","d","-","t","o","-","e","n","d">> },
      agents |-> <<"backend-expert", "frontend-expert", "database-expert">>,
      complexity |-> "complex" ],
    [ name |-> "database_optimization",
      keywords |-> {
        <<"d","a","t","a","b","a","s","e">>,
        <<"q","u","e","r","y">>,
        <<"o","p","t","i","m","i","z","e">>,
        <<"p","e","r","f","o","r","m","a","n","c","e">>,
        <<"i","n","d","e","x">> },
      agents |-> <<"database-expert">>,
      complexity |-> "moderate" ],
    [ name |-> "security_audit",
      keywords |-> {
        <<"s","e","c","u","r","i","t","y">>,
        <<"v","u","l","n","e","r","a","b","i","l","i","t","y">>,
        <<"a","u","d","i","t">>,
        <<"p","e","n","e","t","r","a","t","i","o","n">>,
        <<"c","o","m","p","l","i","a","n","c","e">> },
      agents |-> <<"security-expert">>,
      complexity |-> "complex" ],
    [ name |-> "deployment",
      keywords |-> {
        <<"d","e","p","l","o","y">>,
        <<"c","i","/","c","d">>,
        <<"p","i","p","e","l","i","n","e">>,
        <<"i","n","f","r","a","s","t","r","u","c","t","u","r","e">>,
        <<"c","l","o","u","d">> },
      agents |-> <<"devops-expert">>,
      complexity |-> "moderate" ],
    [ name |-> "testing",
      keywords |-> {
        <<"t","e","s","t">>,
        <<"t","e","s","t","i","n","g">>,
        <<"q","a">>,
        <<"c","o","v","e","r","a","g","e">>,
        <<"a","u","t","o","m","a","t","i","o","n">> },
      agents |-> <<"qa-expert">>,
      complexity |-> "moderate" ],
    [ name |-> "ml_model",
      keywords |-> {
        <<"m","a","c","h","i","n","e"," ","l","e","a","r","n","i","n","g">>,
        <<"m","l">>,
        <<"a","i">>,
        <<"m","o","d","e","l">>,
        <<"t","r","a","i","n","i","n","g">> },
      agents |-> <<"ai-ml-expert">>,
      complexity |-> "complex" ],
    [ name |-> "mobile_app",
      keywords |-> {
        <<"m","o","b","i","l","e">>,
        <<"i","o","s">>,
        <<"a","n","d","r","o","i","d">>,
        <<"a","p","p">>,
        <<"n","a","t","i","v","e">> },
      agents |-> <<"mobile-expert">>,
      complexity |-> "complex" ],
    [ name |-> "refactoring",
      keywords |-> {
        <<"r","e","f","a","c","t","o","r">>,
        <<"c","l","e","a","n">>,
        <<"o","p","t","i","m","i","z","e">>,
        <<"m","o","d","e","r","n","i","z","e">>,
        <<"t","e","c","h"," ","d","e","b","t">> },
      agents |-> <<"refactor-agent">>,
      complexity |-> "moderate" ]
  }

complex_indicators ==
  { <<"a","r","c","h","i","t","e","c","t","u","r","e">>,
    <<"s","y","s","t","e","m">>,
    <<"i","n","f","r","a","s","t","r","u","c","t","u","r","e">>,
    <<"m","i","g","r","a","t","i","o","n">>,
    <<"i","n","t","e","g","r","a","t","i","o","n">>,
    <<"o","p","t","i","m","i","z","a","t","i","o","n">>,
    <<"r","e","d","e","s","i","g","n">>,
    <<"r","e","f","a","c","t","o","r">> }

expert_indicators ==
  { <<"e","n","t","e","r","p","r","i","s","e">>,
    <<"s","c","a","l","e">>,
    <<"d","i","s","t","r","i","b","u","t","e","d">>,
    <<"r","e","a","l","-","t","i","m","e">>,
    <<"h","i","g","h","-","p","e","r","f","o","r","m","a","n","c","e">>,
    <<"s","e","c","u","r","i","t","y","-","c","r","i","t","i","c","a","l">>,
    <<"c","o","m","p","l","i","a","n","c","e">> }

sensitive_keywords ==
  { <<"a","u","t","h">>,
    <<"l","o","g","i","n">>,
    <<"p","a","s","s","w","o","r","d">>,
    <<"p","a","y","m","e","n","t">>,
    <<"s","e","n","s","i","t","i","v","e">>,
    <<"s","e","c","u","r","e">> }

(* ------------------------- Python containers --------------------------- *)

Range(s) == { s[i] : i \in 1..Len(s) }

Reverse(s) == [i \in 1..Len(s) |-> s[Len(s) + 1 - i]]

RECURSIVE SumOver(_, _)
\* sum(f[x] for x in S)
SumOver(S, f) ==
  IF S = {} THEN 0
  ELSE LET x == CHOOSE y \in S : TRUE IN f[x] + SumOver(S \ {x}, f)

Max(S) == CHOOSE x \in S : \A y \in S : y <= x

Min(S) == CHOOSE x \in S : \A y \in S : x <= y

\* The order in which a process started with hash seed `seed` lists role ids.
HashOrder(seed) ==
  LET n == Len(AgentIds)
      rotated == [i \in 1..n |-> AgentIds[((i - 1 + 5 * (seed \div 2)) % n) + 1]]
  IN IF seed % 2 = 0 THEN rotated ELSE Reverse(rotated)

VARIABLES
  hash_seed,            \* the hash seed of this process (PYTHONHASHSEED)
  next_uuid,            \* the value the next uuid4() call returns
  analysis,             \* caller -> the TaskAnalysis it holds, or NoAnalysis
  previous,             \* caller -> the TaskAnalysis it held before that one
  pc,                   \* caller -> where its execute_task call stands
  coro,                 \* caller -> subtask id -> state of execute_when_ready
  completed,            \* caller -> `completed` of its _execute_subtasks call
  results,              \* caller -> `results` of its _execute_subtasks call
  returned,             \* caller -> what its execute_task call returned
  task_graph,           \* self.task_graph
  execution_history,    \* self.execution_history
  performance_metrics,  \* self.performance_metrics
  plan                  \* caller -> what its get_execution_plan call returned

vars == << hash_seed, next_uuid, analysis, previous, pc, coro, completed, results,
           returned, task_graph, execution_history, performance_metrics, plan >>

\* list(a_set_of_role_ids)
ListOfSet(S) == SelectSeq(HashOrder(hash_seed), LAMBDA a : a \in S)

(* --------------------------- task analysis ----------------------------- *)

\* The patterns one of whose keywords occurs in task.lower().
MatchedPatterns(task) ==
  LET task_lower == Lower(task)
  IN { p \in TASK_PATTERNS : AnyIn(task_lower, p.keywords) }

\* Mutant of _identify_domains: only the first role of a matched pattern
\* contributes its domains.
_identify_domains_FirstAgentOnly(task) ==
  LET agents == { p.agents[1] : p \in MatchedPatterns(task) }
      domains == UNION { AGENT_CAPABILITIES[a].domains : a \in agents }
  IN IF domains = {} THEN {"full_stack"} ELSE domains

\* Mutant of _identify_domains: no default when no pattern matches.
_identify_domains_NoDefault(task) ==
  LET agents == UNION { Range(p.agents) : p \in MatchedPatterns(task) }
  IN UNION { AGENT_CAPABILITIES[a].domains : a \in agents }

\* _identify_domains: the domains of every role a matched pattern implies,
\* deduplicated; [FULL_STACK] when there is none.
_identify_domains(task) ==
  LET agents == UNION { Range(p.agents) : p \in MatchedPatterns(task) }
      domains == UNION { AGENT_CAPABILITIES[a].domains : a \in agents }
  IN IF domains = {} THEN {"full_stack"} ELSE domains

\* Mutant of _assess_complexity: the complex indicators are tested before
\* the expert indicators.
_assess_complexity_ComplexFirst(task, domains) ==
  LET task_lower == Lower(task)
  IN IF AnyIn(task_lower, complex_indicators) THEN "complex"
     ELSE IF AnyIn(task_lower, expert_indicators) THEN "expert"
     ELSE IF Cardinality(domains) > 2 THEN "complex"
     ELSE IF Cardinality(domains) = 2 THEN "moderate"
     ELSE "simple"

\* Mutant of _assess_complexity: the number of domains is looked at before
\* the indicators.
_assess_complexity_CardinalityFirst(task, domains) ==
  LET task_lower == Lower(task)
  IN IF Cardinality(domains) > 2 THEN "complex"
     ELSE IF AnyIn(task_lower, expert_indicators) THEN "expert"
     ELSE IF AnyIn(task_lower, complex_indicators) THEN "complex"
     ELSE IF Cardinality(domains) = 2 THEN "moderate"
     ELSE "simple"

\* _assess_complexity
_assess_complexity(task, domains) ==
  LET task_lower == Lower(task)
  IN IF AnyIn(task_lower, expert_indicators) THEN "expert"
     ELSE IF AnyIn(task_lower, complex_indicators) THEN "complex"
     ELSE IF Cardinality(domains) > 2 THEN "complex"
     ELSE IF Cardinality(domains) = 2 THEN "moderate"
     ELSE "simple"

\* _complexity_value
_complexity_value(complexity) ==
  CASE complexity = "simple" -> 1
    [] complexity = "moderate" -> 2
    [] complexity = "complex" -> 3
    [] complexity = "expert" -> 4

\* Mutant of SelectedAgents: the domain-based selection passes over a role
\* that performance_metrics already has an entry for.
SelectedAgents_ByRecord(task, domains, complexity) ==
  LET task_lower == Lower(task)
      by_pattern == UNION { Range(p.agents) : p \in MatchedPatterns(task) }
      by_domain ==
        { agent_id \in DOMAIN AGENT_CAPABILITIES :
            /\ AGENT_CAPABILITIES[agent_id].domains \cap domains # {}
            /\ agent_id \notin DOMAIN performance_metrics
            /\ _complexity_value(complexity)
                 <= _complexity_value(AGENT_CAPABILITIES[agent_id].complexity_limit) }
      qa == IF complexity \in {"complex", "expert"} THEN {"qa-expert"} ELSE {}
      security ==
        IF AnyIn(task_lower, sensitive_keywords) THEN {"security-expert"} ELSE {}
  IN by_pattern \cup by_domain \cup qa \cup security

\* Mutant of SelectedAgents: the domain-based selection does not compare
\* the complexity with the role's complexity_limit.
SelectedAgents_NoLimitCheck(task, domains, complexity) ==
  LET task_lower == Lower(task)
      by_pattern == UNION { Range(p.agents) : p \in MatchedPatterns(task) }
      by_domain ==
        { agent_id \in DOMAIN AGENT_CAPABILITIES :
            AGENT_CAPABILITIES[agent_id].domains \cap domains # {} }
      qa == IF complexity \in {"complex", "expert"} THEN {"qa-expert"} ELSE {}
      security ==
        IF AnyIn(task_lower, sensitive_keywords) THEN {"security-expert"} ELSE {}
  IN by_pattern \cup by_domain \cup qa \cup security

\* The set _select_agents collects in selected_agents.
SelectedAgents(task, domains, complexity) ==
  LET task_lower == Lower(task)
      by_pattern == UNION { Range(p.agents) : p \in MatchedPatterns(task) }
      by_domain ==
        { agent_id \in DOMAIN AGENT_CAPABILITIES :
            /\ AGENT_CAPABILITIES[agent_id].domains \cap domains # {}
            /\ _complexity_value(complexity)
                 <= _complexity_value(AGENT_CAPABILITIES[agent_id].complexity_limit) }
      qa == IF complexity \in {"complex", "expert"} THEN {"qa-expert"} ELSE {}
      security ==
        IF AnyIn(task_lower, sensitive_keywords) THEN {"security-expert"} ELSE {}
  IN by_pattern \cup by_domain \cup qa \cup security

\* _select_agents
_select_agents(task, domains, complexity) ==
  ListOfSet(SelectedAgents(task, domains, complexity))

\* _calculate_priority
_calculate_priority(agent_id, domains) ==
  IF agent_id \in {"uiux-principal", "web-design-agent"} THEN 1
  ELSE IF agent_id = "database-expert" THEN 2
  ELSE IF agent_id = "backend-expert" THEN 3
  ELSE IF agent_id = "frontend-expert" THEN 4
  ELSE IF agent_id \in {"qa-expert", "security-expert"} THEN 5
  ELSE IF agent_id = "devops-expert" THEN 6
  ELSE 4

\* complexity_multipliers of _estimate_agent_time, times ten.
ComplexityMultiplier10(agent_id) ==
  CASE agent_id = "backend-expert" -> 12
    [] agent_id = "frontend-expert" -> 10
    [] agent_id = "database-expert" -> 8
    [] agent_id = "devops-expert" -> 15
    [] agent_id = "security-expert" -> 20
    [] agent_id = "qa-expert" -> 13
    [] agent_id = "ai-ml-expert" -> 30
    [] agent_id = "mobile-expert" -> 15
    [] agent_id = "game-expert" -> 20
    [] agent_id = "hardware-iot-expert" -> 25
    [] agent_id = "uiux-principal" -> 10
    [] agent_id = "web-design-agent" -> 12
    [] agent_id = "refactor-agent" -> 18
    [] OTHER -> 10

\* _estimate_agent_time, in milliseconds: len(task) * 0.01 * multiplier.
_estimate_agent_time(agent_id, task) ==
  Len(task) * ComplexityMultiplier10(agent_id)

RECURSIVE SortedPositions(_, _)
\* The positions `left` of subtasks in the order sorted(key=priority) puts
\* them: by priority, and by position among equal priorities (stable).
SortedPositions(subtasks, left) ==
  IF left = {} THEN << >>
  ELSE LET lowest == Min({ subtasks[k].priority : k \in left })
           first == Min({ k \in left : subtasks[k].priority = lowest })
       IN <<first>> \o SortedPositions(subtasks, left \ {first})

\* Mutant of _establish_dependencies: the tier test is >= instead of >, so
\* a later member of a tier depends on the earlier members of its own tier.
_establish_dependencies_SameTier(subtasks) ==
  LET position == SortedPositions(subtasks, DOMAIN subtasks)
      sorted_tasks == [i \in 1..Len(position) |-> subtasks[position[i]]]
      Dependencies(i) ==
        IF i > 1 /\ sorted_tasks[i].priority >= sorted_tasks[i - 1].priority
          THEN LET prev_priority == sorted_tasks[i - 1].priority
                   earlier == SelectSeq(SubSeq(sorted_tasks, 1, i - 1),
                                        LAMBDA t : t.priority = prev_priority)
               IN [k \in 1..Len(earlier) |-> earlier[k].id]
          ELSE sorted_tasks[i].dependencies
  IN [k \in 1..Len(subtasks) |->
        [subtasks[k] EXCEPT
           !.dependencies = Dependencies(CHOOSE i \in 1..Len(position) : position[i] = k)]]

\* _establish_dependencies: the subtasks, in the order given, each with the
\* dependencies the loop over sorted_tasks leaves on it.
_establish_dependencies(subtasks) ==
  LET position == SortedPositions(subtasks, DOMAIN subtasks)
      sorted_tasks == [i \in 1..Len(position) |-> subtasks[position[i]]]
      Dependencies(i) ==
        IF i > 1 /\ sorted_tasks[i].priority > sorted_tasks[i - 1].priority
          THEN LET prev_priority == sorted_tasks[i - 1].priority
                   earlier == SelectSeq(SubSeq(sorted_tasks, 1, i - 1),
                                        LAMBDA t : t.priority = prev_priority)
               IN [k \in 1..Len(earlier) |-> earlier[k].id]
          ELSE sorted_tasks[i].dependencies
  IN [k \in 1..Len(subtasks) |->
        [subtasks[k] EXCEPT
           !.dependencies = Dependencies(CHOOSE i \in 1..Len(position) : position[i] = k)]]

\* Mutant of _decompose_task: every role of `agents` gets a subtask, with
\* or without a domain among `domains`.
_decompose_task_EveryAgent(task, agents, domains, uuid) ==
  LET subtasks ==
        [k \in 1..Len(agents) |->
           [ id |-> uuid + k - 1,
             agent_id |-> agents[k],
             dependencies |-> << >>,
             priority |-> _calculate_priority(agents[k], domains),
             estimated_time |-> _estimate_agent_time(agents[k], task) ]]
  IN _establish_dependencies(subtasks)

\* _decompose_task: one subtask per role of `agents` with a domain among
\* `domains`, ids taken from uuid4() in creation order, then the dependencies.
_decompose_task(task, agents, domains, uuid) ==
  LET emitting == SelectSeq(agents,
                    LAMBDA a : AGENT_CAPABILITIES[a].domains \cap domains # {})
      subtasks ==
        [k \in 1..Len(emitting) |->
           [ id |-> uuid + k - 1,
             agent_id |-> emitting[k],
             dependencies |-> << >>,
             priority |-> _calculate_priority(emitting[k], domains),
             estimated_time |-> _estimate_agent_time(emitting[k], task) ]]
  IN _establish_dependencies(subtasks)

\* Mutant of _analyze_dependencies: the map lists, for each subtask, the ids
\* of all the subtasks before it in the list.
_analyze_dependencies_AllEarlier(subtasks) ==
  [id \in { subtasks[k].id : k \in 1..Len(subtasks) } |->
     LET k == CHOOSE i \in 1..Len(subtasks) : subtasks[i].id = id
     IN [i \in 1..(k - 1) |-> subtasks[i].id]]

\* _analyze_dependencies
_analyze_dependencies(subtasks) ==
  [id \in { subtasks[k].id : k \in 1..Len(subtasks) } |->
     (CHOOSE t \in Range(subtasks) : t.id = id).dependencies]

(* ------------------------ execution graph (nx) ------------------------- *)

\* The DiGraph built by add_node(task.id, ...) and add_edge(dep, task.id).
DiGraph(subtasks) ==
  [ nodes |-> { t.id : t \in Range(subtasks) }
               \cup UNION { Range(t.dependencies) : t \in Range(subtasks) },
    edges |-> UNION { { <<dep, t.id>> : dep \in Range(t.dependencies) } :
                      t \in Range(subtasks) } ]

RECURSIVE Unsorted(_, _)
\* The nodes a topological sort of G cannot place: those left when nodes
\* without a predecessor among the remaining ones are removed repeatedly.
Unsorted(G, left) ==
  LET free == { n \in left : ~ \E e \in G.edges : e[2] = n /\ e[1] \in left }
  IN IF free = {} THEN left ELSE Unsorted(G, left \ free)

HasCycle(G) == Unsorted(G, G.nodes) # {}

RECURSIVE PathEdges(_, _)
\* dist[v][0] of nx.dag_longest_path for an acyclic G whose edges carry no
\* data: data.get(weight, default_weight) is default_weight = 1 per edge.
PathEdges(G, v) ==
  LET us == { e[1] : e \in { f \in G.edges : f[2] = v } }
  IN IF us = {} THEN 0 ELSE Max({ PathEdges(G, u) + 1 : u \in us })

\* nx.dag_longest_path_length(G, weight='time') for the G of _estimate_time.
dag_longest_path_length(G) ==
  IF G.nodes = {} THEN 0 ELSE Max({ PathEdges(G, v) : v \in G.nodes })

\* Mutant of _estimate_time: on a cycle the fallback is the longest single
\* duration instead of the sum.
_estimate_time_MaxOnCycle(subtasks, dependencies) ==
  LET G == DiGraph(subtasks)
  IN IF Len(subtasks) = 0 THEN 0
     ELSE IF ~ HasCycle(G) THEN 1000 * dag_longest_path_length(G)
     ELSE Max({ t.estimated_time : t \in Range(subtasks) })

\* _estimate_time, in milliseconds.  The length nx returns is taken as a
\* number of seconds.
_estimate_time(subtasks, dependencies) ==
  LET G == DiGraph(subtasks)
      times == [t \in Range(subtasks) |-> t.estimated_time]
  IN IF Len(subtasks) = 0 THEN 0
     ELSE IF ~ HasCycle(G) THEN 1000 * dag_longest_path_length(G)
     ELSE SumOver(Range(subtasks), times)

\* _calculate_confidence, in units of 1/10000.
_calculate_confidence(task, domains, agents) ==
  LET c1 == IF Len(task) < 20 THEN (10000 * 8) \div 10 ELSE 10000
      c2 == IF Cardinality(domains) > 3 THEN (c1 * 9) \div 10 ELSE c1
      c3 == IF Len(agents) > 5 THEN (c2 * 85) \div 100 ELSE c2
      c4 == IF MatchedPatterns(task) # {} THEN (c3 * 11) \div 10 ELSE c3
  IN IF c4 < 10000 THEN c4 ELSE 10000

\* analyze_task, with `uuid` the value the first of its uuid4() calls returns.
analyze_task(task, uuid) ==
  LET domains == _identify_domains(task)
      complexity == _assess_complexity(task, domains)
      required_agents == _select_agents(task, domains, complexity)
      subtasks == _decompose_task(task, required_agents, domains, uuid + 1)
      dependencies == _analyze_dependencies(subtasks)
  IN [ task_id |-> uuid,
       original_task |-> task,
       complexity |-> complexity,
       domains |-> domains,
       required_agents |-> required_agents,
       subtasks |-> subtasks,
       dependencies |-> dependencies,
       estimated_time |-> _estimate_time(subtasks, dependencies),
       confidence |-> _calculate_confidence(task, domains, required_agents) ]

(* ------------------------------ engine --------------------------------- *)

\* The callers of the engine's coroutines analyze_task and execute_task.
Callers == {"c1", "c2"}

NoAnalysis == [ task_id |-> 0 ]

NoResult == [ task_id |-> 0 ]

NoPlan == [ task_id |-> 0 ]

\* Positions of a caller: outside any call and holding no analysis, holding
\* an analysis, inside execute_task, holding what execute_task returned,
\* holding the exception execute_task raised, holding the CancelledError of
\* an execute_task call that was cancelled.
Positions == {"idle", "analysed", "running", "returned", "raised", "cancelled"}

\* States of one execute_when_ready coroutine: not yet run, suspended in
\* the dependency wait (asyncio.sleep(0.1)), suspended in
\* _execute_single_task (asyncio.sleep(task.estimated_time)), finished,
\* ended by an exception of _execute_single_task, ended by cancellation.
CoroStates == {"created", "waiting", "executing", "done", "raised", "cancelled"}

\* The callers' positions and the coroutines' states are of these kinds.
TypeOK ==
  /\ pc \in [Callers -> Positions]
  /\ \A c \in Callers : \A id \in DOMAIN coro[c] : coro[c][id] \in CoroStates

\* The subtask of the caller's analysis with the given id.
SubTaskOf(c, id) == CHOOSE t \in Range(analysis[c].subtasks) : t.id = id

SubTaskIds(c) == { t.id : t \in Range(analysis[c].subtasks) }

\* __init__
Init ==
  /\ hash_seed \in 0..MaxSeed
  /\ next_uuid = 1
  /\ analysis = [c \in Callers |-> NoAnalysis]
  /\ previous = [c \in Callers |-> NoAnalysis]
  /\ pc = [c \in Callers |-> "idle"]
  /\ coro = [c \in Callers |-> << >>]
  /\ completed = [c \in Callers |-> {}]
  /\ results = [c \in Callers |-> << >>]
  /\ returned = [c \in Callers |-> NoResult]
  /\ task_graph = [ nodes |-> {}, edges |-> {} ]
  /\ execution_history = << >>
  /\ performance_metrics = << >>
  /\ plan = [c \in Callers |-> NoPlan]

\* execute_task calls in progress.
Running == { c \in Callers : pc[c] = "running" }

\* The execute_when_ready coroutines of caller c's call are scheduled:
\* the call is suspended in asyncio.gather, or gather has propagated the
\* exception of one coroutine, which does not cancel the others.
Scheduled(c) == pc[c] \in {"running", "raised"}

\* Caller c awaits analyze_task(task).  The coroutine never suspends (the
\* one coroutine it awaits, _decompose_task, awaits nothing), so the call is
\* one step.
AnalyzeTask(c, task) ==
  /\ ~ Scheduled(c)
  /\ LET a == analyze_task(task, next_uuid)
     IN /\ next_uuid + Len(a.subtasks) <= MaxUuid
        /\ analysis' = [analysis EXCEPT ![c] = a]
        /\ previous' = [previous EXCEPT ![c] = analysis[c]]
        /\ next_uuid' = next_uuid + 1 + Len(a.subtasks)
  /\ pc' = [pc EXCEPT ![c] = "analysed"]
  /\ returned' = [returned EXCEPT ![c] = NoResult]
  /\ UNCHANGED << hash_seed, coro, completed, results, task_graph,
                  execution_history, performance_metrics, plan >>

\* _build_execution_graph: the graph stored in self.task_graph.
_build_execution_graph(a) == DiGraph(a.subtasks)

\* Caller c awaits execute_task(analysis[c]): the call up to the first
\* suspension, in asyncio.gather.  _execute_subtasks has created one
\* execute_when_ready coroutine per subtask and none has run yet.
ExecuteTask(c) ==
  /\ pc[c] \in {"analysed", "returned", "cancelled"}
  /\ Len(execution_history) + Cardinality(Running) < MaxRuns
  /\ task_graph' = _build_execution_graph(analysis[c])
  /\ coro' = [coro EXCEPT ![c] = [id \in SubTaskIds(c) |-> "created"]]
  /\ completed' = [completed EXCEPT ![c] = {}]
  /\ results' = [results EXCEPT ![c] = << >>]
  /\ returned' = [returned EXCEPT ![c] = NoResult]
  /\ pc' = [pc EXCEPT ![c] = "running"]
  /\ UNCHANGED << hash_seed, next_uuid, analysis, previous,
                  execution_history, performance_metrics, plan >>

\* Mutant of DependenciesMet: a dependency counts once it has started.
DependenciesMet_Started(c, id) ==
  \A dep \in Range(SubTaskOf(c, id).dependencies) :
    dep \in completed[c] \/ coro[c][dep] = "executing"

\* all(dep in completed for dep in task.dependencies)
DependenciesMet(c, id) ==
  \A dep \in Range(SubTaskOf(c, id).dependencies) : dep \in completed[c]

\* execute_when_ready(task) runs, first or after asyncio.sleep(0.1), finds
\* a dependency missing from `completed` and sleeps (again).
WaitForDependencies(c, id) ==
  /\ Scheduled(c)
  /\ id \in DOMAIN coro[c]
  /\ coro[c][id] \in {"created", "waiting"}
  /\ ~ DependenciesMet(c, id)
  /\ coro' = [coro EXCEPT ![c][id] = "waiting"]
  /\ UNCHANGED << hash_seed, next_uuid, analysis, previous, pc, completed,
                  results, returned, task_graph, execution_history,
                  performance_metrics, plan >>

\* Mutant of StartSingleTask: _execute_single_task is entered by one
\* coroutine of the run at a time.
StartSingleTask_OneAtATime(c, id) ==
  /\ Scheduled(c)
  /\ id \in DOMAIN coro[c]
  /\ coro[c][id] \in {"created", "waiting"}
  /\ DependenciesMet(c, id)
  /\ \A other \in DOMAIN coro[c] : coro[c][other] # "executing"
  /\ coro' = [coro EXCEPT ![c][id] = "executing"]
  /\ UNCHANGED << hash_seed, next_uuid, analysis, previous, pc, completed,
                  results, returned, task_graph, execution_history,
                  performance_metrics, plan >>

\* Mutant of StartSingleTask: a coroutine that has finished can enter
\* _execute_single_task again.
StartSingleTask_Again(c, id) ==
  /\ Scheduled(c)
  /\ id \in DOMAIN coro[c]
  /\ coro[c][id] \in {"created", "waiting", "done"}
  /\ DependenciesMet(c, id)
  /\ coro' = [coro EXCEPT ![c][id] = "executing"]
  /\ UNCHANGED << hash_seed, next_uuid, analysis, previous, pc, completed,
                  results, returned, task_graph, execution_history,
                  performance_metrics, plan >>

\* execute_when_ready(task) runs, finds every dependency in `completed`,
\* and enters _execute_single_task up to its asyncio.sleep.
StartSingleTask(c, id) ==
  /\ Scheduled(c)
  /\ id \in DOMAIN coro[c]
  /\ coro[c][id] \in {"created", "waiting"}
  /\ DependenciesMet(c, id)
  /\ coro' = [coro EXCEPT ![c][id] = "executing"]
  /\ UNCHANGED << hash_seed, next_uuid, analysis, previous, pc, completed,
                  results, returned, task_graph, execution_history,
                  performance_metrics, plan >>

\* The dict _execute_single_task returns.
_execute_single_task(task) ==
  [ task_id |-> task.id,
    agent_id |-> task.agent_id,
    status |-> "completed",
    output |-> <<"Completed", task.id>>,
    execution_time |-> task.estimated_time ]

\* Mutant of FinishSingleTask: `results` is one dict of the engine, shared
\* by the calls in progress, instead of a local of each _execute_subtasks.
FinishSingleTask_SharedResults(c, id) ==
  /\ Scheduled(c)
  /\ id \in DOMAIN coro[c]
  /\ coro[c][id] = "executing"
  /\ results' = [d \in Callers |->
       IF d = c \/ Scheduled(d)
         THEN Append(results[d], _execute_single_task(SubTaskOf(c, id)))
         ELSE results[d]]
  /\ completed' = [completed EXCEPT ![c] = @ \cup {id}]
  /\ coro' = [coro EXCEPT ![c][id] = "done"]
  /\ UNCHANGED << hash_seed, next_uuid, analysis, previous, pc, returned,
                  task_graph, execution_history, performance_metrics, plan >>

\* Mutant of FinishSingleTask: the result is stored but the id is not added
\* to `completed`.
FinishSingleTask_NotCompleted(c, id) ==
  /\ Scheduled(c)
  /\ id \in DOMAIN coro[c]
  /\ coro[c][id] = "executing"
  /\ results' = [results EXCEPT
       ![c] = Append(@, _execute_single_task(SubTaskOf(c, id)))]
  /\ coro' = [coro EXCEPT ![c][id] = "done"]
  /\ UNCHANGED << hash_seed, next_uuid, analysis, previous, pc, completed,
                  returned, task_graph, execution_history,
                  performance_metrics, plan >>

\* _execute_single_task(task) returns; execute_when_ready stores the result
\* and adds the id to `completed`.  `results` keeps insertion order, as a
\* dict does.
FinishSingleTask(c, id) ==
  /\ Scheduled(c)
  /\ id \in DOMAIN coro[c]
  /\ coro[c][id] = "executing"
  /\ results' = [results EXCEPT
       ![c] = IF \E k \in 1..Len(@) : @[k].task_id = id
                THEN [k \in 1..Len(@) |->
                        IF @[k].task_id = id
                          THEN _execute_single_task(SubTaskOf(c, id)) ELSE @[k]]
                ELSE Append(@, _execute_single_task(SubTaskOf(c, id)))]
  /\ completed' = [completed EXCEPT ![c] = @ \cup {id}]
  /\ coro' = [coro EXCEPT ![c][id] = "done"]
  /\ UNCHANGED << hash_seed, next_uuid, analysis, previous, pc, returned,
                  task_graph, execution_history, performance_metrics, plan >>

\* Mutant of _merge_results: by_agent[agent_id] is assigned the record
\* instead of having it appended, so it keeps the last record of each role.
_merge_results_LastPerAgent(res) ==
  LET agents == { res[k].agent_id : k \in 1..Len(res) }
      Last(a) == res[Max({ k \in 1..Len(res) : res[k].agent_id = a })]
  IN [ combined_output |-> [k \in 1..Len(res) |-> res[k].output],
       by_agent |-> [a \in agents |-> << Last(a) >>],
       summary |->
         [ total_tasks |-> Len(res),
           agents_involved |-> Cardinality(agents),
           all_successful |-> \A k \in 1..Len(res) : res[k].status = "completed" ] ]

\* _merge_results
_merge_results(res) ==
  LET agents == { res[k].agent_id : k \in 1..Len(res) }
  IN [ combined_output |-> [k \in 1..Len(res) |-> res[k].output],
       by_agent |-> [a \in agents |-> SelectSeq(res, LAMBDA r : r.agent_id = a)],
       summary |->
         [ total_tasks |-> Len(res),
           agents_involved |-> Cardinality(agents),
           all_successful |-> \A k \in 1..Len(res) : res[k].status = "completed" ] ]

RECURSIVE Gcd(_, _)
Gcd(a, b) == IF b = 0 THEN a ELSE Gcd(b, a % b)

\* A fraction <<numerator, denominator>> in lowest terms.
Fraction(p, q) == LET g == Gcd(p, q) IN << p \div g, q \div g >>

\* The metrics of one role after a run: total_tasks incremented and, when
\* the run was all successful, success_rate replaced by
\* (success_rate * (total_tasks - 1) + 1) / total_tasks.
UpdatedMetrics(metrics, all_successful) ==
  LET total_tasks == metrics.total_tasks + 1
      rate == metrics.success_rate
  IN [ total_tasks |-> total_tasks,
       success_rate |->
         IF all_successful
           THEN Fraction(rate[1] * (total_tasks - 1) + rate[2], rate[2] * total_tasks)
           ELSE rate ]

\* The performance_metrics _record_execution leaves.
RecordedMetrics(a, result) ==
  LET involved == Range(a.required_agents)
      Before(agent_id) ==
        IF agent_id \in DOMAIN performance_metrics
          THEN performance_metrics[agent_id]
          ELSE [ total_tasks |-> 0, success_rate |-> <<0, 1>> ]
  IN [agent_id \in DOMAIN performance_metrics \cup involved |->
        IF agent_id \in involved
          THEN UpdatedMetrics(Before(agent_id), result.summary.all_successful)
          ELSE performance_metrics[agent_id]]

\* The record _record_execution appends to execution_history.
ExecutionRecord(a, result) ==
  [ task_id |-> a.task_id,
    complexity |-> a.complexity,
    domains |-> a.domains,
    agents |-> a.required_agents,
    estimated_time |-> a.estimated_time,
    confidence |-> a.confidence,
    success |-> result.summary.all_successful ]

\* Mutant of ExecuteTaskReturn: the call writes the sum of the subtask
\* times it measured into analysis.estimated_time.
ExecuteTaskReturn_UpdatesEstimate(c) ==
  /\ pc[c] = "running"
  /\ \A id \in DOMAIN coro[c] : coro[c][id] = "done"
  /\ LET final_result == _merge_results(results[c])
     IN /\ execution_history' =
             Append(execution_history, ExecutionRecord(analysis[c], final_result))
        /\ performance_metrics' = RecordedMetrics(analysis[c], final_result)
        /\ returned' = [returned EXCEPT ![c] =
             [ task_id |-> analysis[c].task_id,
               status |-> "completed",
               results |-> final_result,
               agents_used |-> analysis[c].required_agents,
               confidence |-> analysis[c].confidence ]]
  /\ analysis' = [analysis EXCEPT ![c].estimated_time =
       SumOver(1..Len(results[c]),
               [k \in 1..Len(results[c]) |-> results[c][k].execution_time])]
  /\ coro' = [coro EXCEPT ![c] = << >>]
  /\ completed' = [completed EXCEPT ![c] = {}]
  /\ results' = [results EXCEPT ![c] = << >>]
  /\ pc' = [pc EXCEPT ![c] = "returned"]
  /\ UNCHANGED << hash_seed, next_uuid, previous, task_graph, plan >>

\* asyncio.gather returns in execute_task of caller c: every coroutine has
\* finished.  The rest of execute_task runs without suspending: it merges
\* the results, records the execution and returns, which ends the life of
\* the locals of _execute_subtasks.
ExecuteTaskReturn(c) ==
  /\ pc[c] = "running"
  /\ \A id \in DOMAIN coro[c] : coro[c][id] = "done"
  /\ LET final_result == _merge_results(results[c])
     IN /\ execution_history' =
             Append(execution_history, ExecutionRecord(analysis[c], final_result))
        /\ performance_metrics' = RecordedMetrics(analysis[c], final_result)
        /\ returned' = [returned EXCEPT ![c] =
             [ task_id |-> analysis[c].task_id,
               status |-> "completed",
               results |-> final_result,
               agents_used |-> analysis[c].required_agents,
               confidence |-> analysis[c].confidence ]]
  /\ coro' = [coro EXCEPT ![c] = << >>]
  /\ completed' = [completed EXCEPT ![c] = {}]
  /\ results' = [results EXCEPT ![c] = << >>]
  /\ pc' = [pc EXCEPT ![c] = "returned"]
  /\ UNCHANGED << hash_seed, next_uuid, analysis, previous, task_graph, plan >>

(* ----------------------- merging given results ------------------------ *)

\* The results dicts of at most n records that _merge_results is handed:
\* record k has task id k, one of two roles and status 'completed' or
\* 'failed', the status a worker reports for a subtask that did not succeed.
RECURSIVE GivenResults(_)
GivenResults(n) ==
  IF n = 0 THEN { << >> }
  ELSE LET shorter == GivenResults(n - 1)
       IN shorter \cup
            { Append(res, [ task_id |-> n,
                            agent_id |-> agent_id,
                            status |-> status,
                            output |-> <<"Completed", n>>,
                            execution_time |-> 100 ]) :
                res \in { r \in shorter : Len(r) = n - 1 },
                agent_id \in {"backend-expert", "frontend-expert"},
                status \in {"completed", "failed"} }

\* The part of execute_task after _execute_subtasks, applied to a results
\* dict: _merge_results(results), _record_execution(analysis, final_result)
\* and the return value.  The dict stays in `results` next to what was
\* made of it.
MergeAndRecord(c, res) ==
  /\ pc[c] \in {"analysed", "returned"}
  /\ Len(execution_history) < MaxRuns
  /\ LET final_result == _merge_results(res)
     IN /\ execution_history' =
             Append(execution_history, ExecutionRecord(analysis[c], final_result))
        /\ performance_metrics' = RecordedMetrics(analysis[c], final_result)
        /\ returned' = [returned EXCEPT ![c] =
             [ task_id |-> analysis[c].task_id,
               status |-> "completed",
               results |-> final_result,
               agents_used |-> analysis[c].required_agents,
               confidence |-> analysis[c].confidence ]]
  /\ results' = [results EXCEPT ![c] = res]
  /\ pc' = [pc EXCEPT ![c] = "returned"]
  /\ UNCHANGED << hash_seed, next_uuid, analysis, previous, coro, completed,
                  task_graph, plan >>

(* ---------------------------- execution plan --------------------------- *)

RECURSIVE Sorted(_)
\* sorted(S) for a set of integers.
Sorted(S) == IF S = {} THEN << >> ELSE << Min(S) >> \o Sorted(S \ {Min(S)})

\* The entry get_execution_plan makes for a subtask.
PlanTask(task) ==
  [ id |-> task.id,
    agent |-> task.agent_id,
    estimated_time |-> task.estimated_time,
    dependencies |-> task.dependencies ]

\* priority_groups[priority]: the entries of the subtasks of that priority,
\* in the order of analysis.subtasks.
PriorityGroup(a, priority) ==
  LET members == SelectSeq(a.subtasks, LAMBDA t : t.priority = priority)
  IN [k \in 1..Len(members) |-> PlanTask(members[k])]

\* The keys of priority_groups in the order a dict keeps them: that of the
\* first subtask of each priority in analysis.subtasks.
RECURSIVE InsertionOrder(_, _)
InsertionOrder(subtasks, seen) ==
  IF subtasks = << >> THEN << >>
  ELSE IF Head(subtasks).priority \in seen
         THEN InsertionOrder(Tail(subtasks), seen)
         ELSE << Head(subtasks).priority >>
                \o InsertionOrder(Tail(subtasks), seen \cup {Head(subtasks).priority})

\* Mutant of PlanPriorities: the stages follow priority_groups.keys()
\* without sorted().
PlanPriorities_Unsorted(a) == InsertionOrder(a.subtasks, {})

\* sorted(priority_groups.keys())
PlanPriorities(a) == Sorted({ t.priority : t \in Range(a.subtasks) })

\* get_execution_plan
get_execution_plan(a) ==
  LET priorities == PlanPriorities(a)
  IN [ task_id |-> a.task_id,
       complexity |-> a.complexity,
       estimated_time |-> a.estimated_time,
       confidence |-> a.confidence,
       stages |-> [i \in 1..Len(priorities) |->
                     [ priority |-> priorities[i],
                       parallel |-> TRUE,
                       tasks |-> PriorityGroup(a, priorities[i]) ]] ]

\* Caller c calls get_execution_plan(analysis[c]), an ordinary function:
\* it runs to its return in one step and assigns nothing but its own
\* locals.
GetExecutionPlan(c) ==
  /\ pc[c] # "idle"
  /\ plan' = [plan EXCEPT ![c] = get_execution_plan(analysis[c])]
  /\ UNCHANGED << hash_seed, next_uuid, analysis, previous, pc, coro,
                  completed, results, returned, task_graph,
                  execution_history, performance_metrics >>

(* ------------------------ caller-built analyses ------------------------ *)

\* SubTask(id=..., agent_id=..., dependencies=..., priority=...,
\* estimated_time=...): the dataclass accepts any values.
SubTask(id, agent_id, dependencies, priority, estimated_time) ==
  [ id |-> id, agent_id |-> agent_id, dependencies |-> dependencies,
    priority |-> priority, estimated_time |-> estimated_time ]

\* Subtask lists a caller builds by hand with ids uuid+1, uuid+2, ...: a
\* well-formed chain; a cycle of two with an independent third; a subtask
\* that depends on itself; a dependency on an id (0) that is no subtask's
\* id; a cycle of three; a well-formed join of two independent subtasks.
GivenSubtasks(uuid) ==
  { << SubTask(uuid + 1, "backend-expert", << >>, 3, 100),
       SubTask(uuid + 2, "frontend-expert", << uuid + 1 >>, 4, 200) >>,
    << SubTask(uuid + 1, "backend-expert", << >>, 3, 100),
       SubTask(uuid + 2, "frontend-expert", << >>, 4, 200),
       SubTask(uuid + 3, "qa-expert", << uuid + 1, uuid + 2 >>, 6, 300) >>,
    << SubTask(uuid + 1, "backend-expert", << uuid + 2 >>, 3, 100),
       SubTask(uuid + 2, "frontend-expert", << uuid + 1 >>, 4, 200),
       SubTask(uuid + 3, "qa-expert", << >>, 6, 300) >>,
    << SubTask(uuid + 1, "backend-expert", << uuid + 1 >>, 3, 100) >>,
    << SubTask(uuid + 1, "backend-expert", << >>, 3, 100),
       SubTask(uuid + 2, "frontend-expert", << 0 >>, 4, 200) >>,
    << SubTask(uuid + 1, "backend-expert", << uuid + 3 >>, 3, 100),
       SubTask(uuid + 2, "frontend-expert", << uuid + 1 >>, 4, 200),
       SubTask(uuid + 3, "qa-expert", << uuid + 2 >>, 6, 300) >> }

\* TaskAnalysis(...) built by a caller around its own subtasks, with the
\* dependency map and the estimate taken from the engine's helpers.
TaskAnalysis(uuid, subtasks) ==
  LET dependencies == _analyze_dependencies(subtasks)
  IN [ task_id |-> uuid,
       original_task |-> << >>,
       complexity |-> "moderate",
       domains |-> {"full_stack"},
       required_agents |-> [k \in 1..Len(subtasks) |-> subtasks[k].agent_id],
       subtasks |-> subtasks,
       dependencies |-> dependencies,
       estimated_time |-> _estimate_time(subtasks, dependencies),
       confidence |-> 10000 ]

\* Caller c builds an analysis of its own instead of calling analyze_task.
GiveAnalysis(c, subtasks) ==
  /\ pc[c] = "idle"
  /\ next_uuid + Len(subtasks) <= MaxUuid
  /\ analysis' = [analysis EXCEPT ![c] = TaskAnalysis(next_uuid, subtasks)]
  /\ previous' = [previous EXCEPT ![c] = analysis[c]]
  /\ next_uuid' = next_uuid + 1 + Len(subtasks)
  /\ pc' = [pc EXCEPT ![c] = "analysed"]
  /\ UNCHANGED << hash_seed, coro, completed, results, returned, task_graph,
                  execution_history, performance_metrics, plan >>

(* ------------------------ errors and cancellation ---------------------- *)

\* The await inside _execute_single_task(task) raises instead of returning:
\* execute_when_ready has no handler, so the coroutine ends with the
\* exception; nothing is stored in `results` and the id is not added to
\* `completed`.
RaiseSingleTask(c, id) ==
  /\ Scheduled(c)
  /\ id \in DOMAIN coro[c]
  /\ coro[c][id] = "executing"
  /\ coro' = [coro EXCEPT ![c][id] = "raised"]
  /\ UNCHANGED << hash_seed, next_uuid, analysis, previous, pc, completed,
                  results, returned, task_graph, execution_history,
                  performance_metrics, plan >>

\* asyncio.gather(*tasks), called without return_exceptions, propagates the
\* first exception of a coroutine to execute_task, which has no handler and
\* raises it to the caller: no merge, no record, no return value.  The other
\* coroutines are not cancelled.
ExecuteTaskRaise(c) ==
  /\ pc[c] = "running"
  /\ \E id \in DOMAIN coro[c] : coro[c][id] = "raised"
  /\ pc' = [pc EXCEPT ![c] = "raised"]
  /\ UNCHANGED << hash_seed, next_uuid, analysis, previous, coro, completed,
                  results, returned, task_graph, execution_history,
                  performance_metrics, plan >>

\* The task awaiting execute_task is cancelled while the call is suspended
\* in asyncio.gather: gather cancels every coroutine that has not finished
\* and CancelledError leaves execute_task, which has no handler.
CancelExecuteTask(c) ==
  /\ pc[c] = "running"
  /\ coro' = [coro EXCEPT ![c] =
       [id \in DOMAIN @ |->
          IF @[id] \in {"created", "waiting", "executing"}
            THEN "cancelled" ELSE @[id]]]
  /\ pc' = [pc EXCEPT ![c] = "cancelled"]
  /\ UNCHANGED << hash_seed, next_uuid, analysis, previous, completed,
                  results, returned, task_graph, execution_history,
                  performance_metrics, plan >>

(* --------------------------- specifications ---------------------------- *)

\* One caller analyses and executes tasks, one call at a time.
Next ==
  \/ \E task \in RunTexts : AnalyzeTask("c1", task)
  \/ ExecuteTask("c1")
  \/ \E id \in DOMAIN coro["c1"] : WaitForDependencies("c1", id)
  \/ \E id \in DOMAIN coro["c1"] : StartSingleTask("c1", id)
  \/ \E id \in DOMAIN coro["c1"] : FinishSingleTask("c1", id)
  \/ ExecuteTaskReturn("c1")

Spec == Init /\ [][Next]_vars

\* analyze_task applied once to each task text, in a fresh engine.
AnalyzeOnce(task) == pc["c1"] = "idle" /\ AnalyzeTask("c1", task)

NextAnalysis == \E task \in Texts : AnalyzeOnce(task)

SpecAnalysis == Init /\ [][NextAnalysis]_vars

\* Caller c analyses its first task.
AnalyzeFirst(c, task) == pc[c] = "idle" /\ AnalyzeTask(c, task)

\* One caller analyses a task and executes it, again after a call that
\* returned or was cancelled; an execution call of a subtask may raise, and
\* the caller's execute_task call may be cancelled.
NextFaults ==
  \/ \E task \in RunTexts : AnalyzeFirst("c1", task)
  \/ ExecuteTask("c1")
  \/ \E id \in DOMAIN coro["c1"] : WaitForDependencies("c1", id)
  \/ \E id \in DOMAIN coro["c1"] : StartSingleTask("c1", id)
  \/ \E id \in DOMAIN coro["c1"] : FinishSingleTask("c1", id)
  \/ \E id \in DOMAIN coro["c1"] : RaiseSingleTask("c1", id)
  \/ ExecuteTaskRaise("c1")
  \/ CancelExecuteTask("c1")
  \/ ExecuteTaskReturn("c1")

SpecFaults == Init /\ [][NextFaults]_vars

\* Caller c makes its one execute_task call.
ExecuteOnce(c) == pc[c] = "analysed" /\ ExecuteTask(c)

\* analyze_task applied once to each task text, then get_execution_plan
\* applied to the analysis.
NextPlan ==
  \/ \E task \in Texts : AnalyzeOnce(task)
  \/ GetExecutionPlan("c1")

SpecPlan == Init /\ [][NextPlan]_vars

\* One caller executes an analysis it built itself.
NextGiven ==
  \/ \E subtasks \in GivenSubtasks(next_uuid) : GiveAnalysis("c1", subtasks)
  \/ ExecuteTask("c1")
  \/ \E id \in DOMAIN coro["c1"] : WaitForDependencies("c1", id)
  \/ \E id \in DOMAIN coro["c1"] : StartSingleTask("c1", id)
  \/ \E id \in DOMAIN coro["c1"] : FinishSingleTask("c1", id)
  \/ ExecuteTaskReturn("c1")

SpecGiven == Init /\ [][NextGiven]_vars

\* Two callers share one engine: each analyses one task and executes it,
\* and their calls and coroutines interleave at the suspension points.
NextConcurrent ==
  \E c \in Callers :
    \/ \E task \in ConcurrentTexts : AnalyzeFirst(c, task)
    \/ ExecuteOnce(c)
    \/ \E id \in DOMAIN coro[c] : WaitForDependencies(c, id)
    \/ \E id \in DOMAIN coro[c] : StartSingleTask(c, id)
    \/ \E id \in DOMAIN coro[c] : FinishSingleTask(c, id)
    \/ ExecuteTaskReturn(c)

SpecConcurrent == Init /\ [][NextConcurrent]_vars

\* One caller analyses a task and has results dicts merged and recorded
\* for it.
NextMerge ==
  \/ \E task \in RunTexts : AnalyzeFirst("c1", task)
  \/ \E res \in GivenResults(MaxRecords) : MergeAndRecord("c1", res)

SpecMerge == Init /\ [][NextMerge]_vars

\* The scheduling asyncio gives the coroutines of caller c's call: the event
\* loop resumes every coroutine whose sleep has elapsed and the caller once
\* gather is done, so a start, a finish or the return that stays possible
\* is eventually taken.
FairScheduling(c) ==
  /\ WF_vars(\E id \in DOMAIN coro[c] : StartSingleTask(c, id))
  /\ WF_vars(\E id \in DOMAIN coro[c] : FinishSingleTask(c, id))
  /\ WF_vars(ExecuteTaskReturn(c))

\* Spec under the event loop's fair scheduling.
SpecFair == Init /\ [][Next]_vars /\ FairScheduling("c1")

(* ------------------------------ properties ----------------------------- *)

\* Caller c holds an analysis returned by analyze_task.
Analysed(c) == pc[c] # "idle"

\* The priority tiers that have a subtask.
OccupiedTiers(subtasks) == { t.priority : t \in Range(subtasks) }

\* The ids of the subtasks in the nearest occupied tier below tier p.
NearestLowerTierIds(subtasks, p) ==
  LET lower == { q \in OccupiedTiers(subtasks) : q < p }
  IN { t.id : t \in { u \in Range(subtasks) : u.priority = Max(lower) } }

\* C1: during execute_task, a subtask is inside _execute_single_task or has
\* completed only if every id in its dependencies is in the completed set.
C1_StartsOnlyAfterDependencies ==
  \A c \in Callers :
    pc[c] = "running" =>
      \A id \in DOMAIN coro[c] :
        coro[c][id] \in {"executing", "done"} =>
          \A dep \in Range(SubTaskOf(c, id).dependencies) : dep \in completed[c]

\* C1 witness: a subtask that lists dependencies is executing.
C1_Witness ==
  \E c \in Callers :
    /\ pc[c] = "running"
    /\ \E id \in DOMAIN coro[c] :
         /\ coro[c][id] = "executing"
         /\ SubTaskOf(c, id).dependencies # << >>

\* C2 (as claimed): every subtask of a tier that is not the lowest occupied
\* one has as dependencies exactly the ids of the nearest lower occupied tier.
C2_EveryTierMemberDependsOnLowerTier ==
  \A c \in Callers :
    Analysed(c) =>
      LET subtasks == analysis[c].subtasks
      IN \A t \in Range(subtasks) :
           t.priority # Min(OccupiedTiers(subtasks)) =>
             Range(t.dependencies) = NearestLowerTierIds(subtasks, t.priority)

\* C3: the dependency edges of an analysis go from a subtask of a lower tier
\* to a subtask of a strictly higher tier, and the graph has no cycle.
C3_EdgesAscendTiers ==
  \A c \in Callers :
    Analysed(c) =>
      LET subtasks == analysis[c].subtasks
      IN /\ \A t \in Range(subtasks) :
              \A dep \in Range(t.dependencies) :
                \E d \in Range(subtasks) : d.id = dep /\ d.priority < t.priority
         /\ ~ HasCycle(DiGraph(subtasks))

\* C3 witness: an analysis whose subtasks have a dependency edge.
C3_Witness ==
  \E c \in Callers :
    /\ Analysed(c)
    /\ \E t \in Range(analysis[c].subtasks) : t.dependencies # << >>

RECURSIVE PathTime(_, _)
\* The largest sum of estimated_time along a dependency path ending in t.
PathTime(subtasks, t) ==
  LET before == { d \in Range(subtasks) : d.id \in Range(t.dependencies) }
  IN t.estimated_time
       + (IF before = {} THEN 0 ELSE Max({ PathTime(subtasks, d) : d \in before }))

\* The node-weighted longest path of the dependency graph.
CriticalPath(subtasks) ==
  IF Len(subtasks) = 0 THEN 0
  ELSE Max({ PathTime(subtasks, t) : t \in Range(subtasks) })

\* sum(task.estimated_time for task in subtasks)
TotalTime(subtasks) ==
  SumOver(Range(subtasks), [t \in Range(subtasks) |-> t.estimated_time])

\* C4 (as claimed): the estimated total duration is the largest sum of
\* estimated_time along a dependency path (for one subtask, its own time).
C4_EstimateIsCriticalPath ==
  \A c \in Callers :
    Analysed(c) =>
      analysis[c].estimated_time = CriticalPath(analysis[c].subtasks)

\* C5 (as claimed): the estimate is at most the sum of the subtasks'
\* estimated_time, and equals it only when no two subtasks share a tier.
C5_EstimateAtMostSum ==
  \A c \in Callers :
    Analysed(c) =>
      LET subtasks == analysis[c].subtasks
      IN /\ analysis[c].estimated_time <= TotalTime(subtasks)
         /\ analysis[c].estimated_time = TotalTime(subtasks) =>
              Cardinality(OccupiedTiers(subtasks)) = Len(subtasks)

\* C6: every analysis has a non-empty domain list and a non-empty list of
\* required agents, each a key of AGENT_CAPABILITIES.
C6_DomainsAndAgentsNonEmpty ==
  \A c \in Callers :
    Analysed(c) =>
      /\ analysis[c].domains # {}
      /\ analysis[c].required_agents # << >>
      /\ Range(analysis[c].required_agents) \subseteq DOMAIN AGENT_CAPABILITIES

\* C6 witness: the analysis of the empty text or of a text without keyword.
C6_Witness ==
  \E c \in Callers :
    /\ Analysed(c)
    /\ analysis[c].original_task \in { << >>, TextZzz }
    /\ MatchedPatterns(analysis[c].original_task) = {}

\* C7: an analysis of the text the caller analysed before has the same
\* domains, complexity and set of required agents as the earlier one,
\* whatever the engine executed and recorded in between.
C7_SameTextSameAnalysis ==
  \A c \in Callers :
    ( /\ previous[c] # NoAnalysis
      /\ previous[c].original_task = analysis[c].original_task )
    => /\ analysis[c].domains = previous[c].domains
       /\ analysis[c].complexity = previous[c].complexity
       /\ Range(analysis[c].required_agents) = Range(previous[c].required_agents)

\* C7 witness: a text analysed, executed and recorded, then analysed again
\* under a new task id.
C7_Witness ==
  \E c \in Callers :
    /\ previous[c] # NoAnalysis
    /\ previous[c].original_task = analysis[c].original_task
    /\ previous[c].task_id # analysis[c].task_id
    /\ \E k \in 1..Len(execution_history) :
         execution_history[k].task_id = previous[c].task_id
    /\ \A a \in Range(previous[c].required_agents) :
         a \in DOMAIN performance_metrics

\* C8 (as claimed): "Create a REST API for user management" gives domains
\* {Backend}, complexity Moderate and required agents {backend-expert}.
C8_ScenarioA_BackendOnly ==
  \A c \in Callers :
    (Analysed(c) /\ analysis[c].original_task = ScenarioA) =>
      /\ analysis[c].domains = {"backend"}
      /\ analysis[c].complexity = "moderate"
      /\ Range(analysis[c].required_agents) = {"backend-expert"}

\* C8 (amended): "Create a REST API for user management" gives domains
\* {Backend, FullStack}, complexity Moderate and required agents
\* {backend-expert, frontend-expert}.
C8_ScenarioA ==
  \A c \in Callers :
    (Analysed(c) /\ analysis[c].original_task = ScenarioA) =>
      /\ analysis[c].domains = {"backend", "full_stack"}
      /\ analysis[c].complexity = "moderate"
      /\ Range(analysis[c].required_agents) = {"backend-expert", "frontend-expert"}

\* C8 witness: the scenario text has been analysed.
C8_Witness ==
  \E c \in Callers : Analysed(c) /\ analysis[c].original_task = ScenarioA

\* C9 (as claimed): the enterprise chat text gives complexity Expert and
\* required agents including backend-expert, frontend-expert,
\* database-expert, security-expert and qa-expert.
C9_ScenarioB_WithDatabase ==
  \A c \in Callers :
    (Analysed(c) /\ analysis[c].original_task = ScenarioB) =>
      /\ analysis[c].complexity = "expert"
      /\ { "backend-expert", "frontend-expert", "database-expert",
           "security-expert", "qa-expert" }
           \subseteq Range(analysis[c].required_agents)

\* C9 (amended): the enterprise chat text gives complexity Expert and
\* required agents including backend-expert, frontend-expert,
\* security-expert and qa-expert, and not database-expert.
C9_ScenarioB ==
  \A c \in Callers :
    (Analysed(c) /\ analysis[c].original_task = ScenarioB) =>
      /\ analysis[c].complexity = "expert"
      /\ { "backend-expert", "frontend-expert", "security-expert", "qa-expert" }
           \subseteq Range(analysis[c].required_agents)
      /\ "database-expert" \notin Range(analysis[c].required_agents)

\* C9 witness: the scenario text has been analysed.
C9_Witness ==
  \E c \in Callers : Analysed(c) /\ analysis[c].original_task = ScenarioB

\* Two subtasks of one tier of caller c's analysis, neither listing the other.
SameTierIndependent(c, s, t) ==
  /\ s # t
  /\ SubTaskOf(c, s).priority = SubTaskOf(c, t).priority
  /\ s \notin Range(SubTaskOf(c, t).dependencies)
  /\ t \notin Range(SubTaskOf(c, s).dependencies)

\* C10: of two subtasks of one tier without an edge between them, one that
\* has not started and whose dependencies are completed can start while the
\* other has not completed: its start does not wait for the other.
C10_SameTierNotSerialized ==
  \A c \in Callers :
    pc[c] = "running" =>
      \A s, t \in DOMAIN coro[c] :
        ( /\ SameTierIndependent(c, s, t)
          /\ coro[c][s] \in {"created", "waiting"}
          /\ Range(SubTaskOf(c, s).dependencies) \subseteq completed[c]
          /\ coro[c][t] # "done" )
        => ENABLED StartSingleTask(c, s)

\* C10 witness: two subtasks of one tier are executing at the same time.
C10_Witness ==
  \E c \in Callers :
    /\ pc[c] = "running"
    /\ \E s, t \in DOMAIN coro[c] :
         /\ SameTierIndependent(c, s, t)
         /\ coro[c][s] = "executing"
         /\ coro[c][t] = "executing"

\* The result records execute_task returned to caller c.
ResultRecords(c) ==
  IF returned[c] = NoResult THEN {}
  ELSE UNION { Range(returned[c].results.by_agent[a]) :
                 a \in DOMAIN returned[c].results.by_agent }

\* Caller c's execute_task call has ended, by returning or by raising.
Ended(c) == pc[c] \in {"returned", "raised", "cancelled"}

\* C11 (as claimed): once execute_task has ended, a subtask whose sole
\* dependency failed is reported Failed in the returned result, whose
\* summary says all_successful is false: the dependent is not left waiting.
C11_FailedDependencyFailsDependent ==
  \A c \in Callers :
    Ended(c) =>
      \A id \in DOMAIN coro[c] :
        LET deps == SubTaskOf(c, id).dependencies
        IN (Len(deps) = 1 /\ coro[c][deps[1]] = "raised") =>
             /\ \E r \in ResultRecords(c) : r.task_id = id /\ r.status = "failed"
             /\ returned[c].results.summary.all_successful = FALSE

\* The subtasks assigned to the role that are inside _execute_single_task,
\* over every execute_task call in progress on the engine.
ExecutingFor(agent_id) ==
  UNION { { << c, id >> : id \in { i \in DOMAIN coro[c] :
                                    /\ coro[c][i] = "executing"
                                    /\ SubTaskOf(c, i).agent_id = agent_id } } :
          c \in Callers }

\* C12 (as claimed): for every role, the number of its subtasks executing
\* at the same time on the engine is at most the role's parallel_capacity.
C12_ParallelCapacityRespected ==
  \A agent_id \in Range(AgentIds) :
    Cardinality(ExecutingFor(agent_id))
      <= AGENT_CAPABILITIES[agent_id].parallel_capacity

RECURSIVE DependsOn(_, _, _)
\* Subtask `id` of caller c's analysis depends on subtask `on`, directly or
\* through other subtasks.
DependsOn(c, id, on) ==
  \E dep \in Range(SubTaskOf(c, id).dependencies) :
    dep = on \/ DependsOn(c, dep, on)

\* C13 (as claimed): when the execution call of a subtask has raised and
\* execute_task has ended, execute_task has returned a result in which that
\* subtask is reported failed and every subtask that does not depend on it
\* has its result: the error did not abort the run.
C13_RaisedSubtaskDoesNotAbortRun ==
  \A c \in Callers :
    \A id \in DOMAIN coro[c] :
      (coro[c][id] = "raised" /\ Ended(c)) =>
        /\ pc[c] = "returned"
        /\ \E r \in ResultRecords(c) : r.task_id = id /\ r.status = "failed"
        /\ \A other \in DOMAIN coro[c] \ {id} :
             ~ DependsOn(c, other, id) =>
               \E r \in ResultRecords(c) : r.task_id = other

\* Some dependency list of the analysis names an id that is no subtask's id,
\* or the dependency edges contain a cycle.
Malformed(a) ==
  \/ HasCycle(DiGraph(a.subtasks))
  \/ \E t \in Range(a.subtasks) :
       \E dep \in Range(t.dependencies) :
         dep \notin { u.id : u \in Range(a.subtasks) }

\* C14 (as claimed): once execute_task has been called with an analysis
\* whose dependencies contain a cycle or an unknown id, the call has failed:
\* it is not in progress and no subtask has started or completed.
C14_MalformedAnalysisRejected ==
  \A c \in Callers :
    (pc[c] \notin {"idle", "analysed"} /\ Malformed(analysis[c])) =>
      /\ pc[c] = "raised"
      /\ \A id \in DOMAIN coro[c] : coro[c][id] \notin {"executing", "done"}

\* With a malformed analysis, execute_task is in progress, a subtask has
\* completed and no step is left: the call neither returns nor fails.
MalformedRunStuck ==
  \E c \in Callers :
    /\ pc[c] = "running"
    /\ Malformed(analysis[c])
    /\ \E id \in DOMAIN coro[c] : coro[c][id] = "done"
    /\ \A id \in DOMAIN coro[c] : coro[c][id] \in {"done", "waiting"}

\* Caller c holds an analysis whose dependency edges contain a cycle.
HoldsCyclic(c) == pc[c] # "idle" /\ HasCycle(DiGraph(analysis[c].subtasks))

C16_OneRecordPerEndedCall ==
  [][ LET ended == { c \in Callers :
                       pc[c] = "running" /\ pc'[c] \in {"returned", "cancelled"} }
      IN Len(execution_history') = Len(execution_history) + Cardinality(ended)
    ]_vars

\* Every execute_when_ready coroutine of caller c's call has finished:
\* asyncio.gather and _execute_subtasks return.
SubtasksReturn(c) ==
  pc[c] = "running" /\ \A id \in DOMAIN coro[c] : coro[c][id] = "done"

\* C17: in a run on an analysis from analyze_task, the results hold one
\* record per finished subtask and no other (so that when _execute_subtasks
\* returns their keys are exactly the subtask ids), and a subtask that has
\* completed stays completed until the call returns: it does not execute
\* again.
C17_EachSubtaskExecutedOnce ==
  /\ [] \A c \in Callers :
          pc[c] = "running" =>
            /\ DOMAIN coro[c] = SubTaskIds(c)
            /\ Len(results[c]) = Cardinality(completed[c])
            /\ { results[c][k].task_id : k \in 1..Len(results[c]) } = completed[c]
            /\ completed[c] = { id \in DOMAIN coro[c] : coro[c][id] = "done" }
            /\ SubtasksReturn(c) =>
                 { results[c][k].task_id : k \in 1..Len(results[c]) } = SubTaskIds(c)
  /\ [][ \A c \in Callers :
           \A id \in DOMAIN coro[c] :
             (coro[c][id] = "done" /\ pc'[c] = "running") => coro'[c][id] = "done"
       ]_vars

\* C17 witness: _execute_subtasks returns for an analysis with more than one
\* subtask.
C17_Witness ==
  \E c \in Callers : SubtasksReturn(c) /\ Cardinality(SubTaskIds(c)) > 1

\* The calls, among the callers' single execute_task calls that have
\* returned, whose analysis involves the role: the total_tasks a serial
\* execution of those calls gives the role.
SerialTotalTasks(agent_id) ==
  Cardinality({ c \in Callers :
                  /\ pc[c] = "returned"
                  /\ agent_id \in Range(analysis[c].required_agents) })

\* C18: when the execute_task calls of two callers interleave on one
\* engine, each call returns results for exactly the subtasks of its own
\* analysis, execution_history holds exactly one record per returned call,
\* and every role's total_tasks is the serial value.
C18_InterleavedCallsIsolated ==
  /\ \A c \in Callers :
       pc[c] = "returned" =>
         /\ returned[c].task_id = analysis[c].task_id
         /\ { r.task_id : r \in ResultRecords(c) } = SubTaskIds(c)
         /\ returned[c].results.summary.total_tasks = Cardinality(SubTaskIds(c))
         /\ Cardinality({ k \in 1..Len(execution_history) :
                            execution_history[k].task_id = analysis[c].task_id }) = 1
  /\ Len(execution_history) = Cardinality({ c \in Callers : pc[c] = "returned" })
  /\ \A agent_id \in Range(AgentIds) :
       IF agent_id \in DOMAIN performance_metrics
         THEN performance_metrics[agent_id].total_tasks = SerialTotalTasks(agent_id)
         ELSE SerialTotalTasks(agent_id) = 0

\* C18 witness: both calls have returned, and the call that began last (its
\* graph is the one left in task_graph) returned first, so it ran entirely
\* inside the other call; the two analyses share a role.
C18_Witness ==
  \E c, d \in Callers :
    /\ c # d
    /\ pc[c] = "returned" /\ pc[d] = "returned"
    /\ Len(analysis[c].subtasks) > 1
    /\ task_graph = _build_execution_graph(analysis[d])
    /\ execution_history[1].task_id = analysis[d].task_id
    /\ Range(analysis[c].required_agents) \cap Range(analysis[d].required_agents) # {}

\* The places << stage, position >> of the plan at which the id appears.
PlanPlaces(p, id) ==
  UNION { { << i, k >> : k \in { j \in 1..Len(p.stages[i].tasks) :
                                  p.stages[i].tasks[j].id = id } } :
          i \in 1..Len(p.stages) }

\* C19: the plan get_execution_plan returned for an analysis of
\* analyze_task has its stages in strictly ascending priority, holds every
\* subtask of the analysis in exactly one stage (that of its priority) and
\* nothing else, and every dependency of a subtask is in a strictly earlier
\* stage; the step that returns the plan changes neither the engine state
\* nor the analysis.
C19_PlanStagesOrdered ==
  /\ [] \A c \in Callers :
          plan[c] # NoPlan =>
            LET p == plan[c]
                subtasks == analysis[c].subtasks
            IN /\ \A i, j \in 1..Len(p.stages) :
                    i < j => p.stages[i].priority < p.stages[j].priority
               /\ \A t \in Range(subtasks) :
                    /\ Cardinality(PlanPlaces(p, t.id)) = 1
                    /\ \A place \in PlanPlaces(p, t.id) :
                         /\ p.stages[place[1]].priority = t.priority
                         /\ \A dep \in Range(t.dependencies) :
                              \E before \in PlanPlaces(p, dep) : before[1] < place[1]
               /\ \A i \in 1..Len(p.stages) :
                    /\ p.stages[i].tasks # << >>
                    /\ \A k \in 1..Len(p.stages[i].tasks) :
                         p.stages[i].tasks[k].id \in { t.id : t \in Range(subtasks) }
  /\ [][ plan' # plan =>
           UNCHANGED << analysis, task_graph, execution_history,
                        performance_metrics, coro, completed, results >>
       ]_vars

\* C19 witness: a plan with two stages, the second holding two subtasks, one
\* of which depends on a subtask of the first stage.
C19_Witness ==
  \E c \in Callers :
    /\ plan[c] # NoPlan
    /\ Len(plan[c].stages) >= 2
    /\ Len(plan[c].stages[2].tasks) >= 2
    /\ \E k \in 1..Len(plan[c].stages[2].tasks) :
         plan[c].stages[2].tasks[k].dependencies # << >>

\* C20 (as claimed): during execute_task on an analysis of analyze_task, a
\* subtask that is executing or has completed has every subtask of every
\* lower priority tier in the completed set.
C20_TierSynchronizedStages ==
  \A c \in Callers :
    pc[c] = "running" =>
      \A id \in DOMAIN coro[c] :
        coro[c][id] \in {"executing", "done"} =>
          \A lower \in DOMAIN coro[c] :
            SubTaskOf(c, lower).priority < SubTaskOf(c, id).priority =>
              lower \in completed[c]

\* C21: under fair scheduling, an execute_task call on an analysis of
\* analyze_task eventually returns, with a result record for every subtask
\* and all of them completed: no subtask stays in the dependency wait.
C21_RunEventuallyReturns ==
  \A c \in Callers :
    (pc[c] = "running")
      ~> ( /\ pc[c] = "returned"
           /\ returned[c].results.summary.total_tasks = Len(analysis[c].subtasks)
           /\ returned[c].results.summary.all_successful )

\* C21 witness: a call has returned for an analysis in which a subtask had
\* to wait for two dependencies.
C21_Witness ==
  \E c \in Callers :
    /\ pc[c] = "returned"
    /\ \E t \in Range(analysis[c].subtasks) : Len(t.dependencies) > 1

\* C22: the complexity of an analysis is Expert when the lowered text has
\* an expert indicator, whatever else it has; otherwise Complex when it has
\* a complex indicator; otherwise it follows the number of domains: one
\* gives Simple, two give Moderate, three or more give Complex.
C22_KeywordsBeforeCardinality ==
  \A c \in Callers :
    Analysed(c) =>
      LET text == Lower(analysis[c].original_task)
          n == Cardinality(analysis[c].domains)
          has_expert == \E k \in expert_indicators : Contains(text, k)
          has_complex == \E k \in complex_indicators : Contains(text, k)
      IN /\ has_expert => analysis[c].complexity = "expert"
         /\ (~ has_expert /\ has_complex) => analysis[c].complexity = "complex"
         /\ (~ has_expert /\ ~ has_complex) =>
              /\ n = 1 => analysis[c].complexity = "simple"
              /\ n = 2 => analysis[c].complexity = "moderate"
              /\ n >= 3 => analysis[c].complexity = "complex"
              /\ n >= 1

\* C22 witness: a text with an expert indicator, a complex indicator and a
\* single domain has been analysed.
C22_Witness ==
  \E c \in Callers :
    /\ Analysed(c)
    /\ \E k \in expert_indicators :
         Contains(Lower(analysis[c].original_task), k)
    /\ \E k \in complex_indicators :
         Contains(Lower(analysis[c].original_task), k)
    /\ Cardinality(analysis[c].domains) = 1

\* C23 (as claimed): no role in the required agents of an analysis has a
\* complexity_limit below the complexity of the analysis.
C23_NoRoleBelowTier ==
  \A c \in Callers :
    Analysed(c) =>
      \A agent_id \in Range(analysis[c].required_agents) :
        _complexity_value(analysis[c].complexity)
          <= _complexity_value(AGENT_CAPABILITIES[agent_id].complexity_limit)

\* The role's complexity_limit is below the complexity of caller c's analysis.
BelowTier(c, agent_id) ==
  _complexity_value(AGENT_CAPABILITIES[agent_id].complexity_limit)
    < _complexity_value(analysis[c].complexity)

\* C23 (amended): a role whose complexity_limit is below the complexity of
\* the analysis is among the required agents only if a matched pattern
\* names it or it is qa-expert, force-included for Complex and Expert
\* tasks; covering one of the task's domains does not bring it in.
C23_BelowTierOnlyByPatternOrForce ==
  \A c \in Callers :
    Analysed(c) =>
      \A agent_id \in Range(analysis[c].required_agents) :
        BelowTier(c, agent_id) =>
          \/ \E p \in MatchedPatterns(analysis[c].original_task) :
               agent_id \in Range(p.agents)
          \/ /\ agent_id = "qa-expert"
             /\ analysis[c].complexity \in {"complex", "expert"}

\* C23 witness: an Expert analysis whose domains include one that a role
\* below the tier covers; that role is not required, and qa-expert, also
\* below the tier, is.
C23_Witness ==
  \E c \in Callers :
    /\ Analysed(c)
    /\ analysis[c].complexity = "expert"
    /\ \E agent_id \in DOMAIN AGENT_CAPABILITIES :
         /\ BelowTier(c, agent_id)
         /\ AGENT_CAPABILITIES[agent_id].domains \cap analysis[c].domains # {}
         /\ agent_id \notin Range(analysis[c].required_agents)
    /\ "qa-expert" \in Range(analysis[c].required_agents)

\* The required agents of the analysis with a capability domain among the
\* domains of the analysis.
EmittingAgents(a) ==
  { agent_id \in Range(a.required_agents) :
      AGENT_CAPABILITIES[agent_id].domains \cap a.domains # {} }

\* C24: the subtasks of an analysis are one per required agent that has a
\* capability domain among the task's domains, and none for any other
\* role; their agent ids are pairwise distinct.
C24_OneSubtaskPerIntersectingRole ==
  \A c \in Callers :
    Analysed(c) =>
      LET subtasks == analysis[c].subtasks
      IN /\ { t.agent_id : t \in Range(subtasks) } = EmittingAgents(analysis[c])
         /\ \A i, j \in 1..Len(subtasks) :
              subtasks[i].agent_id = subtasks[j].agent_id => i = j

\* C24 witness: an analysis with a required agent that gets no subtask and
\* with more than one subtask.
C24_Witness ==
  \E c \in Callers :
    /\ Analysed(c)
    /\ Range(analysis[c].required_agents) # EmittingAgents(analysis[c])
    /\ Len(analysis[c].subtasks) > 1

\* C25: in an analysis of analyze_task the keys of the dependency map are
\* the subtask ids, the entry of each id is that subtask's dependencies
\* list, and every id listed is the id of another subtask of the analysis.
C25_DependencyMapConsistent ==
  \A c \in Callers :
    Analysed(c) =>
      LET a == analysis[c]
          ids == { t.id : t \in Range(a.subtasks) }
      IN /\ DOMAIN a.dependencies = ids
         /\ Cardinality(ids) = Len(a.subtasks)
         /\ \A t \in Range(a.subtasks) :
              /\ a.dependencies[t.id] = t.dependencies
              /\ Range(t.dependencies) \subseteq ids \ {t.id}

\* C25 witness: an analysis whose map has an entry with two prerequisites
\* and an empty entry.
C25_Witness ==
  \E c \in Callers :
    /\ Analysed(c)
    /\ \E id \in DOMAIN analysis[c].dependencies :
         Len(analysis[c].dependencies[id]) = 2
    /\ \E id \in DOMAIN analysis[c].dependencies :
         analysis[c].dependencies[id] = << >>

\* The records of execution_history whose run involved the role.
RunsInvolving(agent_id) ==
  { k \in 1..Len(execution_history) :
      agent_id \in Range(execution_history[k].agents) }

\* C26 (as claimed): after any sequence of runs, every role with metrics
\* has as success_rate the fraction of fully successful runs among the runs
\* that involved it, the value the incremental mean with outcome 1 or 0
\* gives.
C26_SuccessRateIsIncrementalMean ==
  \A agent_id \in DOMAIN performance_metrics :
    LET runs == RunsInvolving(agent_id)
        successes == { k \in runs : execution_history[k].success }
    IN /\ performance_metrics[agent_id].total_tasks = Cardinality(runs)
       /\ performance_metrics[agent_id].success_rate
            = Fraction(Cardinality(successes), Cardinality(runs))

\* C27: the merged result made of a results dict has total_tasks equal to
\* the number of records, agents_involved equal to the number of distinct
\* agent ids, all_successful true exactly when every record has status
\* completed, one output per record in combined_output, and by_agent lists
\* that hold every record once, each under its own agent id.
C27_MergeSummarisesRecords ==
  \A c \in Callers :
    (pc[c] = "returned" /\ returned[c] # NoResult) =>
      LET res == results[c]
          merged == returned[c].results
          agents == { res[k].agent_id : k \in 1..Len(res) }
      IN /\ merged.summary.total_tasks = Len(res)
         /\ merged.summary.agents_involved = Cardinality(agents)
         /\ merged.summary.all_successful
              = (\A k \in 1..Len(res) : res[k].status = "completed")
         /\ Len(merged.combined_output) = Len(res)
         /\ DOMAIN merged.by_agent = agents
         /\ \A a \in agents :
              merged.by_agent[a] = SelectSeq(res, LAMBDA r : r.agent_id = a)
         /\ SumOver(agents, [a \in agents |-> Len(merged.by_agent[a])]) = Len(res)

\* C27 witness: a results dict with two records of one role and a failed
\* record has been merged.
C27_Witness ==
  \E c \in Callers :
    /\ pc[c] = "returned" /\ returned[c] # NoResult
    /\ \E i, j \in 1..Len(results[c]) :
         i # j /\ results[c][i].agent_id = results[c][j].agent_id
    /\ \E k \in 1..Len(results[c]) : results[c][k].status = "failed"
    /\ Len(results[c]) = 3

\* C28: every step of an execute_task call, from the call to the return,
\* leaves the caller's TaskAnalysis as it was: subtasks, dependency map,
\* required agents and estimate.
C28_ExecuteLeavesAnalysisUnchanged ==
  [][ \A c \in Callers :
        (pc[c] = "running" \/ pc'[c] = "running") => analysis'[c] = analysis[c]
    ]_vars

\* C28 witness: a call on an analysis with dependencies has returned.
C28_Witness ==
  \E c \in Callers :
    /\ pc[c] = "returned"
    /\ returned[c] # NoResult
    /\ analysis[c].dependencies # [id \in DOMAIN analysis[c].dependencies |-> << >>]

\* Subtask id of caller c's cancelled call never started: its coroutine was
\* cancelled while a dependency of it was still missing from `completed`.
CancelledBeforeStart(c, id) ==
  coro[c][id] = "cancelled" /\ ~ DependenciesMet(c, id)

\* C29 (as claimed): when an execute_task call is cancelled while some
\* subtasks have not started, the call still yields a merged result in which
\* those subtasks are reported failed and every subtask that had completed
\* keeps its record.
C29_CancelledRunYieldsPartialResult ==
  \A c \in Callers :
    (pc[c] = "cancelled" /\ \E id \in DOMAIN coro[c] : CancelledBeforeStart(c, id)) =>
      /\ returned[c] # NoResult
      /\ \A id \in DOMAIN coro[c] :
           /\ CancelledBeforeStart(c, id) =>
                \E r \in ResultRecords(c) : r.task_id = id /\ r.status = "failed"
           /\ id \in completed[c] =>
                \E r \in ResultRecords(c) : r.task_id = id /\ r.status = "completed"

\* The roles the task text contributes by itself: the agents of every
\* matched pattern, or backend-expert and frontend-expert when no pattern
\* matches.
ContributedRoles(task) ==
  IF MatchedPatterns(task) = {}
    THEN {"backend-expert", "frontend-expert"}
    ELSE UNION { Range(p.agents) : p \in MatchedPatterns(task) }

\* C30: every analysis has at least one subtask: each role contributed by a
\* matched pattern, or backend-expert and frontend-expert when no pattern
\* matches, is a required agent, has a capability domain among the
\* identified domains, and has a subtask.
C30_SubtasksNeverEmpty ==
  \A c \in Callers :
    Analysed(c) =>
      LET a == analysis[c]
      IN /\ Len(a.subtasks) >= 1
         /\ \A agent_id \in ContributedRoles(a.original_task) :
              /\ agent_id \in Range(a.required_agents)
              /\ AGENT_CAPABILITIES[agent_id].domains \cap a.domains # {}
              /\ \E k \in 1..Len(a.subtasks) : a.subtasks[k].agent_id = agent_id

\* C30 witness: the analysis of a text matching a pattern that contributes
\* several roles, with a subtask for each of them.
C30_Witness ==
  \E c \in Callers :
    /\ Analysed(c)
    /\ MatchedPatterns(analysis[c].original_task) # {}
    /\ Cardinality(ContributedRoles(analysis[c].original_task)) >= 3
    /\ Len(analysis[c].subtasks) >= 3

====
